---- MODULE Spec2Model ----
(***************************************************************************)
(* Model of the normalization pipeline of all-in-one-music:                *)
(*   - calculate_f1_score        (all-in-one/convert_to_music_dissector.py)*)
(*   - convert_to_music_dissector (same file): duration fallback chain,    *)
(*     segment normalization, truths placeholder, scores, output           *)
(*   - convert_segments_format, convert_json_to_ui_format                  *)
(*                               (music_analysis/convert_json_format.py)   *)
(*                                                                         *)
(* Numbers.  Timestamps are integers counting 1/100 s.  Python floats     *)
(* that are products or quotients (duration, precision, recall, F1) are    *)
(* exact rationals <<numerator, denominator>> with denominator > 0; the    *)
(* rounding of binary floating point is not modelled.                      *)
(* Optional values (Python None) are sequences: <<>> is None, <<v>> is v.  *)
(***************************************************************************)
EXTENDS Integers, Sequences, FiniteSets, TLC

VARIABLES
    pred_times,   \* calculate_f1_score: argument pred_times
    true_times,   \* calculate_f1_score: argument true_times
    tolerance,    \* calculate_f1_score: argument tolerance (1/100 s)
    f1_result,    \* calculate_f1_score: returned value, None before the call
    prog,         \* the conversion called: "dissector" or "ui" ("none": scorer only)
    pc,           \* position in the conversion
    data,         \* the input JSON object (json.load)
    fs,           \* what the conversion has seen or made of the file system
    test_idx,     \* index of the loops over candidate paths
    duration,     \* local variable duration of convert_to_music_dissector
    attempted,    \* the steps of the duration chain entered so far, in order
    record,       \* music_dissector_data, respectively the converted data
    output,       \* the JSON written, None while nothing is written
    call,         \* the function called on its own and its position ("none": no call)
    args,         \* its arguments and local variables
    ret           \* its returned value, None before it returns

f1_vars == <<pred_times, true_times, tolerance, f1_result>>

conv_vars == <<prog, pc, data, fs, test_idx, duration, attempted, record, output>>

pure_vars == <<call, args, ret>>

vars == <<pred_times, true_times, tolerance, f1_result,
          prog, pc, data, fs, test_idx, duration, attempted, record, output,
          call, args, ret>>

(***************************************************************************)
(* Bounds of the model                                                     *)
(***************************************************************************)
\* longest timestamp list handed to calculate_f1_score
MaxLen == 2
\* largest timestamp handed to calculate_f1_score
MaxStamp == 3
\* largest tolerance handed to calculate_f1_score
MaxTol == 2

(***************************************************************************)
(* Values                                                                  *)
(***************************************************************************)
None == <<>>
Some(v) == <<v>>
IsNone(x) == x = <<>>
Val(x) == x[1]

Abs(x) == IF x < 0 THEN -x ELSE x

\* all sequences over S of length at most n
SeqsUpTo(S, n) == UNION {[1..k -> S] : k \in 0..n}

\* a Python float that is a quotient: <<numerator, denominator>>
Rat(n, d) == <<n, d>>
Zero == Rat(0, 1)
One == Rat(1, 1)
RatAdd(a, b) == Rat(a[1] * b[2] + b[1] * a[2], a[2] * b[2])
RatMul(a, b) == Rat(a[1] * b[1], a[2] * b[2])
\* a / b, b > 0
RatDiv(a, b) == Rat(a[1] * b[2], a[2] * b[1])
RatEq(a, b) == a[1] * b[2] = b[1] * a[2]
RatLe(a, b) == a[1] * b[2] <= b[1] * a[2]

(***************************************************************************)
(* calculate_f1_score                                                      *)
(***************************************************************************)
\* mutant: the bound taken exclusive, abs(pred - true) < tolerance
WithinToleranceExclusive(pred, true, tol) == Abs(pred - true) < tol

\* the test of the inner loop: abs(pred - true) <= tolerance
WithinTolerance(pred, true, tol) == Abs(pred - true) <= tol

\* the inner loop "for true in true_times", from index j on: 1 when it
\* reaches "matched += 1; break", 0 when it runs to the end
RECURSIVE InnerLoop(_, _, _, _)
InnerLoop(pred, tt, tol, j) ==
    IF j > Len(tt) THEN 0
    ELSE IF WithinTolerance(pred, tt[j], tol) THEN 1
    ELSE InnerLoop(pred, tt, tol, j + 1)

\* the outer loop "for pred in pred_times", from index i on: the value
\* added to matched
RECURSIVE OuterLoop(_, _, _, _)
OuterLoop(pt, tt, tol, i) ==
    IF i > Len(pt) THEN 0
    ELSE InnerLoop(pt[i], tt, tol, 1) + OuterLoop(pt, tt, tol, i + 1)

calculate_f1_score(pt, tt, tol) ==
    IF pt = <<>> \/ tt = <<>> THEN Zero
    ELSE IF pt = tt THEN One
    ELSE LET matched == OuterLoop(pt, tt, tol, 1) IN
         IF matched = 0 THEN Zero
         ELSE LET precision == Rat(matched, Len(pt))
                  recall == Rat(matched, Len(tt))
              IN  IF RatEq(RatAdd(precision, recall), Zero) THEN Zero
                  ELSE RatDiv(RatMul(Rat(2, 1), RatMul(precision, recall)),
                              RatAdd(precision, recall))

(***************************************************************************)
(* The scorer as a program: one call with arguments drawn from the bounds  *)
(***************************************************************************)
Stamps == 0..MaxStamp
TimeLists == SeqsUpTo(Stamps, MaxLen)

\* no function is called on its own
PureIdle ==
    /\ call = "none"
    /\ args = <<>>
    /\ ret = None

\* no conversion is running
ConvIdle ==
    /\ prog = "none"
    /\ pc = "idle"
    /\ data = None
    /\ fs = None
    /\ test_idx = 1
    /\ duration = None
    /\ attempted = <<>>
    /\ record = None
    /\ output = None

InitF1 ==
    /\ pred_times \in TimeLists
    /\ true_times \in TimeLists
    /\ tolerance \in 0..MaxTol
    /\ f1_result = None
    /\ ConvIdle
    /\ PureIdle

CallF1 ==
    /\ IsNone(f1_result)
    /\ f1_result' = Some(calculate_f1_score(pred_times, true_times, tolerance))
    /\ UNCHANGED <<pred_times, true_times, tolerance>>
    /\ UNCHANGED <<conv_vars, pure_vars>>

NextF1 == CallF1

SpecF1 == InitF1 /\ [][NextF1]_vars

(***************************************************************************)
(* JSON input                                                              *)
(***************************************************************************)
\* longest beats list of an input
MaxBeats == 2
\* beat timestamps are 0 s, 10 s, ..., MaxBeatIdx * 10 s
MaxBeatIdx == 1
\* longest downbeats list of an input
MaxDownbeats == 1
\* most segments of an input
MaxSegs == 2

IsSorted(s) == \A i \in 1..(Len(s) - 1) : s[i] <= s[i + 1]
SortedLists(S, n) == {s \in SeqsUpTo(S, n) : IsSorted(s)}

BeatTimes == {k * 1000 : k \in 0..MaxBeatIdx}
BeatLists == SortedLists(BeatTimes, MaxBeats)
DownbeatLists == SortedLists(BeatTimes, MaxDownbeats)

\* One element of a JSON segments list: an object (kind "dict", with the
\* keys it holds), a list (kind "list", items) or a number (kind "num").
JsonDict(ks, start, time, end, label) ==
    [kind |-> "dict", keys |-> ks, start |-> start, time |-> time,
     end |-> end, label |-> label, items |-> <<>>, num |-> 0]
JsonList(items) ==
    [kind |-> "list", keys |-> {}, start |-> 0, time |-> 0,
     end |-> 0, label |-> "", items |-> items, num |-> 0]
JsonNum(n) ==
    [kind |-> "num", keys |-> {}, start |-> 0, time |-> 0,
     end |-> 0, label |-> "", items |-> <<>>, num |-> n]

Labels == {"intro", "verse"}
\* segment i of an input runs from Boundary(i) to Boundary(i + 1)
Boundary(i) == (i - 1) * 1000

\* the three upstream shapes of a segments list of n segments
ObjectSegments(n) ==
    {[i \in 1..n |-> JsonDict({"start", "end", "label"},
                              Boundary(i), 0, Boundary(i + 1), ls[i])]
        : ls \in [1..n -> Labels]}
\* the legacy encoding: "time" in the place of "start"
LegacySegments(n) ==
    {[i \in 1..n |-> JsonDict({"time", "end", "label"},
                              0, Boundary(i), Boundary(i + 1), ls[i])]
        : ls \in [1..n -> Labels]}
PairSegments(n) == {[i \in 1..n |-> JsonList(<<Boundary(i), Boundary(i + 1)>>)]}
FlatSegments(n) == {[i \in 1..n |-> JsonNum(Boundary(i))]}

SegmentLists ==
    UNION {ObjectSegments(n) \cup LegacySegments(n) \cup PairSegments(n)
             : n \in 0..MaxSegs}
    \cup UNION {FlatSegments(n) : n \in 0..(MaxSegs + 1)}

\* a value or its absence: None, or Some(v) for v in S
Optional(S) == {None} \cup {Some(v) : v \in S}
OrElse(opt, default) == IF IsNone(opt) THEN default ELSE Val(opt)
KeyIf(key, opt) == IF IsNone(opt) THEN {} ELSE {key}

\* dict.get(key, default) and "key in dict" on an object with field keys
Get(d, key, default) == IF key \in d.keys THEN d[key] ELSE default
Truthy(list) == list /= <<>>

(***************************************************************************)
(* File system.  A path is looked at when the code probes it; what was     *)
(* found is kept, so a path gives the same answer every time.              *)
(*   unprobed: not looked at yet     missing: does not exist               *)
(*   exists: exists, readability not looked at yet                         *)
(*   unreadable: exists, sf.info raises                                    *)
(*   ok: exists, sf.info gives duration dur                                *)
(***************************************************************************)
File(st, dur) == [st |-> st, dur |-> dur]
Unprobed == File("unprobed", Zero)
Missing == File("missing", Zero)
Exists == File("exists", Zero)
Unreadable == File("unreadable", Zero)
Readable(d) == File("ok", d)

\* decoded durations of audio files: an empty file and one of 30 s
AudioDurations == {Rat(0, 1), Rat(3000, 1)}

\* what probing a path can find
Probe(f) ==
    CASE f.st = "unprobed" ->
           {Missing, Unreadable} \cup {Readable(d) : d \in AudioDurations}
      [] f.st = "exists" ->
           {Unreadable} \cup {Readable(d) : d \in AudioDurations}
      [] OTHER -> {f}

\* the stems directory as step 2 sees it: no directory, no *.wav in it,
\* or the state of stem_files[0]
NoDir == File("nodir", Zero)
NoWav == File("nowav", Zero)
ProbeStemsDir(f) ==
    IF f.st = "unprobed"
    THEN {NoDir, NoWav, Unreadable} \cup {Readable(d) : d \in AudioDurations}
    ELSE {f}

PathExists(f) == f.st \in {"exists", "unreadable", "ok"}

\* the four stems of a record
Instruments == {"bass", "drum", "other", "vocal"}
\* the stem files bass.wav, drums.wav, other.wav and vocals.wav of the stem
\* directory of the conversion: "missing", "unreadable" (it exists, it
\* cannot be decoded) or "ok"
StemStates == {"missing", "unreadable", "ok"}
StemFiles == [Instruments -> StemStates]
NoStemFiles == [i \in Instruments |-> "missing"]
HasStemFile(stemfile) == \E i \in Instruments : stemfile[i] /= "missing"

\* str.rfind("."): the last position of a dot, 0 when there is none
LastDot(s) ==
    IF \E i \in 1..Len(s) : s[i] = "."
    THEN CHOOSE i \in 1..Len(s) : s[i] = "." /\ \A j \in (i + 1)..Len(s) : s[j] /= "."
    ELSE 0

\* Path(name).stem: the name without its last suffix; a leading or a
\* trailing dot starts no suffix
Stem(name) ==
    LET i == LastDot(name) IN
    IF 1 < i /\ i < Len(name) THEN SubSeq(name, 1, i - 1) ELSE name

\* the name of the input JSON file when it is not varied: "a.a"
DefaultInputName == <<"a", ".", "a">>

\* nothing looked at yet, no stem directory; input_json is "written" once
\* a conversion has written to its input file
FsUnknown ==
    [cand |-> [i \in 1..5 |-> Unprobed], stems |-> Unprobed,
     mp3 |-> [i \in 1..2 |-> Unprobed], audio |-> Unprobed,
     stemdir |-> FALSE, stemfile |-> NoStemFiles,
     input_json_path |-> DefaultInputName, input_json |-> "intact"]
\* known to hold no audio at all
FsEmpty ==
    [cand |-> [i \in 1..5 |-> Missing], stems |-> NoDir,
     mp3 |-> [i \in 1..2 |-> Missing], audio |-> Missing,
     stemdir |-> FALSE, stemfile |-> NoStemFiles,
     input_json_path |-> DefaultInputName, input_json |-> "intact"]

(***************************************************************************)
(* convert_to_music_dissector                                              *)
(***************************************************************************)
\* estimated_ratio = 1.17
estimated_ratio == Rat(117, 100)
\* duration = 240.0 (seconds, counted in 1/100 s)
DefaultDuration == 24000
\* calculate_f1_score(..., tolerance=0.07) (seconds, counted in 1/100 s)
DefaultTolerance == 7

\* the input of convert_to_music_dissector: beats, downbeats and segments
\* are optional keys; abs tells whether file_path is an absolute path
DissectorData(b, d, s, abs) ==
    [keys |-> KeyIf("beats", b) \cup KeyIf("downbeats", d) \cup KeyIf("segments", s),
     beats |-> OrElse(b, <<>>),
     downbeats |-> OrElse(d, <<>>),
     segments |-> OrElse(s, <<>>),
     abs |-> abs]

\* len(possible_audio_paths): three paths, two more for an absolute file_path
NumCandidates == IF data.abs THEN 5 ELSE 3
\* len(mp3_paths)
NumMp3Paths == 2

\* the state of every conversion before its first step
ConvStart ==
    /\ test_idx = 1
    /\ duration = None
    /\ attempted = <<>>
    /\ record = None
    /\ output = None
    /\ pred_times = <<>>
    /\ true_times = <<>>
    /\ tolerance = DefaultTolerance
    /\ f1_result = None
    /\ PureIdle

\* mutant: the loop without its break, a later readable candidate
\* overwriting the duration of an earlier one
ProbeAudioCandidateNoBreak ==
    /\ prog = "dissector"
    /\ pc = "step1"
    /\ attempted' = IF test_idx = 1 THEN Append(attempted, 1) ELSE attempted
    /\ \E f \in Probe(fs.cand[test_idx]) :
         /\ fs' = [fs EXCEPT !.cand[test_idx] = f]
         /\ duration' = IF f.st = "ok" THEN Some(f.dur) ELSE duration
         /\ IF test_idx < NumCandidates
            THEN pc' = pc /\ test_idx' = test_idx + 1
            ELSE pc' = "step2" /\ test_idx' = 1
    /\ UNCHANGED <<prog, data, record, output, f1_vars, pure_vars>>

\* mutant: a candidate that exists and cannot be read ends the loop
ProbeAudioCandidateStopsAtUnreadable ==
    /\ prog = "dissector"
    /\ pc = "step1"
    /\ attempted' = IF test_idx = 1 THEN Append(attempted, 1) ELSE attempted
    /\ \E f \in Probe(fs.cand[test_idx]) :
         /\ fs' = [fs EXCEPT !.cand[test_idx] = f]
         /\ IF f.st = "ok"
            THEN /\ duration' = Some(f.dur)
                 /\ pc' = "step2"
                 /\ test_idx' = 1
            ELSE /\ duration' = duration
                 /\ IF test_idx < NumCandidates /\ f.st /= "unreadable"
                    THEN pc' = pc /\ test_idx' = test_idx + 1
                    ELSE pc' = "step2" /\ test_idx' = 1
    /\ UNCHANGED <<prog, data, record, output, f1_vars, pure_vars>>

\* step 1, one iteration of "for test_path in possible_audio_paths"
ProbeAudioCandidate ==
    /\ prog = "dissector"
    /\ pc = "step1"
    /\ attempted' = IF test_idx = 1 THEN Append(attempted, 1) ELSE attempted
    /\ \E f \in Probe(fs.cand[test_idx]) :
         /\ fs' = [fs EXCEPT !.cand[test_idx] = f]
         /\ IF f.st = "ok"
            THEN /\ duration' = Some(f.dur)
                 /\ pc' = "step2"
                 /\ test_idx' = 1
            ELSE /\ duration' = duration
                 /\ IF test_idx < NumCandidates
                    THEN pc' = pc /\ test_idx' = test_idx + 1
                    ELSE pc' = "step2" /\ test_idx' = 1
    /\ UNCHANGED <<prog, data, record, output, f1_vars, pure_vars>>

\* step 2, "if duration is None: stems_dir = ..."
ProbeStems ==
    /\ prog = "dissector"
    /\ pc = "step2"
    /\ IF IsNone(duration)
       THEN /\ attempted' = Append(attempted, 2)
            /\ \E f \in ProbeStemsDir(fs.stems) :
                 \* a directory that holds one of the four stem files
                 \* exists and holds a *.wav
                 /\ HasStemFile(fs.stemfile) => f.st \notin {"nodir", "nowav"}
                 /\ fs' = [fs EXCEPT !.stems = f]
                 /\ duration' = IF f.st = "ok" THEN Some(f.dur) ELSE duration
       ELSE UNCHANGED <<attempted, fs, duration>>
    /\ pc' = "step3"
    /\ UNCHANGED <<prog, data, test_idx, record, output, f1_vars, pure_vars>>

\* step 3, "if duration is None: mp3_paths = ...", one iteration of
\* "for mp3_path in mp3_paths"
ProbeMp3 ==
    /\ prog = "dissector"
    /\ pc = "step3"
    /\ IF IsNone(duration)
       THEN /\ attempted' = IF test_idx = 1 THEN Append(attempted, 3) ELSE attempted
            /\ \E f \in Probe(fs.mp3[test_idx]) :
                 /\ fs' = [fs EXCEPT !.mp3[test_idx] = f]
                 /\ IF f.st = "ok"
                    THEN /\ duration' = Some(f.dur)
                         /\ pc' = "step4"
                         /\ test_idx' = 1
                    ELSE /\ duration' = duration
                         /\ IF test_idx < NumMp3Paths
                            THEN pc' = pc /\ test_idx' = test_idx + 1
                            ELSE pc' = "step4" /\ test_idx' = 1
       ELSE /\ pc' = "step4"
            /\ UNCHANGED <<attempted, fs, duration, test_idx>>
    /\ UNCHANGED <<prog, data, record, output, f1_vars, pure_vars>>

\* mutant: "if not duration" in the place of "if duration is None", a
\* duration of 0.0 taken for a missing one
EstimateDurationFalsy ==
    /\ prog = "dissector"
    /\ pc = "step4"
    /\ IF IsNone(duration) \/ RatEq(Val(duration), Zero)
       THEN IF Truthy(Get(data, "beats", <<>>))
            THEN LET last_beat == data.beats[Len(data.beats)] IN
                 /\ duration' = Some(RatMul(Rat(last_beat, 1), estimated_ratio))
                 /\ attempted' = Append(attempted, 4)
            ELSE /\ duration' = Some(Rat(DefaultDuration, 1))
                 /\ attempted' = attempted \o <<4, 5>>
       ELSE UNCHANGED <<duration, attempted>>
    /\ pc' = "build"
    /\ UNCHANGED <<prog, data, fs, test_idx, record, output, f1_vars, pure_vars>>

\* mutant: the estimate taken from the first beat, data['beats'][0]
EstimateDurationFirstBeat ==
    /\ prog = "dissector"
    /\ pc = "step4"
    /\ IF IsNone(duration)
       THEN IF Truthy(Get(data, "beats", <<>>))
            THEN LET first_beat == data.beats[1] IN
                 /\ duration' = Some(RatMul(Rat(first_beat, 1), estimated_ratio))
                 /\ attempted' = Append(attempted, 4)
            ELSE /\ duration' = Some(Rat(DefaultDuration, 1))
                 /\ attempted' = attempted \o <<4, 5>>
       ELSE UNCHANGED <<duration, attempted>>
    /\ pc' = "build"
    /\ UNCHANGED <<prog, data, fs, test_idx, record, output, f1_vars, pure_vars>>

\* steps 4 and 5, "if duration is None: ... if data.get('beats'): ... else:"
EstimateDuration ==
    /\ prog = "dissector"
    /\ pc = "step4"
    /\ IF IsNone(duration)
       THEN IF Truthy(Get(data, "beats", <<>>))
            THEN LET last_beat == data.beats[Len(data.beats)] IN
                 /\ duration' = Some(RatMul(Rat(last_beat, 1), estimated_ratio))
                 /\ attempted' = Append(attempted, 4)
            ELSE /\ duration' = Some(Rat(DefaultDuration, 1))
                 /\ attempted' = attempted \o <<4, 5>>
       ELSE UNCHANGED <<duration, attempted>>
    /\ pc' = "build"
    /\ UNCHANGED <<prog, data, fs, test_idx, record, output, f1_vars, pure_vars>>

\* whether segment[key] gives a value: it raises TypeError on a list or a
\* number and KeyError on an object without the key
HasItem(seg, key) == seg.kind = "dict" /\ key \in seg.keys

\* whether the loop over data["segments"] or the read of the last "end" raises
InlineSegmentsRaise(segs) ==
    \/ \E i \in 1..Len(segs) : ~HasItem(segs[i], "start") \/ ~HasItem(segs[i], "label")
    \/ ~HasItem(segs[Len(segs)], "end")

\* mutant: the end of the last segment is not appended
InlineSegmentTimesNoEnd(segs) == [i \in 1..Len(segs) |-> segs[i].start]

\* segments_times after the loop and the append of the last segment's end
InlineSegmentTimes(segs) ==
    [i \in 1..Len(segs) |-> segs[i].start] \o <<segs[Len(segs)].end>>

\* mutant: one more label appended, for the closing boundary
InlineSegmentLabelsWithEnd(segs) ==
    [i \in 1..Len(segs) |-> segs[i].label] \o <<"end">>

\* labels after the loop
InlineSegmentLabels(segs) == [i \in 1..Len(segs) |-> segs[i].label]

\* music_dissector_data["inferences"]
Inferences(d) ==
    LET segs == Get(d, "segments", <<>>) IN
    [beats |-> Get(d, "beats", <<>>),
     downbeats |-> Get(d, "downbeats", <<>>),
     segments |-> IF Truthy(segs) THEN InlineSegmentTimes(segs) ELSE <<>>,
     labels |-> IF Truthy(segs) THEN InlineSegmentLabels(segs) ELSE <<>>]

\* music_dissector_data["truths"]: a copy of every list of inferences
Truths(inf) ==
    [beats |-> inf.beats, downbeats |-> inf.downbeats,
     segments |-> inf.segments, labels |-> inf.labels]

\* music_dissector_data["scores"]
Scores(inf, tr) ==
    [beat |-> [f1 |-> calculate_f1_score(inf.beats, tr.beats, DefaultTolerance)],
     downbeat |-> [f1 |-> calculate_f1_score(inf.downbeats, tr.downbeats,
                                             DefaultTolerance)],
     segment |-> ("F-measure@0.5" :> One) @@ ("Pairwise F-measure" :> One)]

\* array_length = int(duration * 100), duration counted in 1/100 s
ArrayLength(dur) == dur[1] \div dur[2]

\* An Envelope is kept by the length and the content of its three lists:
\* "zeros" ([0.0] * n), "dummy" ([128] * n) or "features" (the values an
\* extraction returns).
Band(n, fill) == [len |-> n, fill |-> fill]
Envelope(n, fill) ==
    [low |-> Band(n, fill), mid |-> Band(n, fill), high |-> Band(n, fill)]

\* mutant: the curves returned as the transform gives them, one value a
\* frame (target_length + 1 frames), without the resampling
ExtractedEnvelopeUnresampled(st, target_length) ==
    IF st = "ok" THEN Envelope(target_length + 1, "features")
    ELSE Envelope(target_length, "zeros")

\* what extract_audio_features(stem_path, target_length) returns for a
\* stem file that exists: three lists of target_length values, zeros when
\* loading or analysing it fails
ExtractedEnvelope(st, target_length) ==
    IF st = "ok" THEN Envelope(target_length, "features")
    ELSE Envelope(target_length, "zeros")

\* the loop over instrument_mapping: nav[instrument], and wav[instrument]
\* set to the same features
StemEnvelopes(stemfile, array_length) ==
    [i \in Instruments |->
        IF stemfile[i] /= "missing"
        THEN ExtractedEnvelope(stemfile[i], array_length)
        ELSE Envelope(array_length, "zeros")]

\* music_dissector_data as it is written
MusicDissectorData(d, dur, stemfile) ==
    LET inf == Inferences(d)
        tr == Truths(inf)
    IN  [duration |-> dur, array_length |-> ArrayLength(dur),
         nav |-> StemEnvelopes(stemfile, ArrayLength(dur)),
         wav |-> StemEnvelopes(stemfile, ArrayLength(dur)),
         inferences |-> inf, truths |-> tr, scores |-> Scores(inf, tr)]

\* from array_length to the scores; a segment that cannot be read raises
BuildRecord ==
    /\ prog = "dissector"
    /\ pc = "build"
    /\ LET segs == Get(data, "segments", <<>>) IN
       IF Truthy(segs) /\ InlineSegmentsRaise(segs)
       THEN pc' = "raised" /\ record' = record
       ELSE /\ record' = Some(MusicDissectorData(data, Val(duration), fs.stemfile))
            /\ pc' = "output"
    /\ UNCHANGED <<prog, data, fs, test_idx, duration, attempted, output, f1_vars, pure_vars>>

\* the mixdown copy (written when audio_path exists), bass.mp3 (written
\* when bass.wav exists) and the JSON files
WriteOutputs ==
    /\ prog = "dissector"
    /\ pc = "output"
    /\ fs' = [fs EXCEPT
               !.mp3[1] = IF PathExists(fs.cand[1]) THEN Exists ELSE @,
               !.mp3[2] = IF fs.stemfile["bass"] /= "missing" THEN Exists ELSE @]
    /\ output' = record
    /\ pc' = "done"
    /\ UNCHANGED <<prog, data, test_idx, duration, attempted, record, f1_vars, pure_vars>>

\* what a file holds after a write that did not complete
Truncated == Some([keys |-> {}, truncated |-> TRUE])

\* lines 367-399 raise: copying the mixdown fails and nothing is written,
\* or opening a JSON file fails after the audio files were written, or
\* json.dump fails after the file was opened.  Nothing catches the error.
WriteOutputsRaises ==
    /\ prog = "dissector"
    /\ pc = "output"
    /\ \E point \in {"mixdown", "open", "dump"} :
         /\ fs' = IF point = "mixdown" THEN fs
                  ELSE [fs EXCEPT
                         !.mp3[1] = IF PathExists(fs.cand[1]) THEN Exists ELSE @,
                         !.mp3[2] = IF fs.stemfile["bass"] /= "missing" THEN Exists ELSE @]
         /\ output' = IF point = "dump" THEN Truncated ELSE output
    /\ pc' = "write_raised"
    /\ UNCHANGED <<prog, data, test_idx, duration, attempted, record, f1_vars, pure_vars>>

\* convert_to_music_dissector is called again on the same input after a
\* completed conversion: the files are as the first call left them, the
\* locals start afresh (lines 169-182)
ConvertAgain ==
    /\ prog = "dissector"
    /\ pc = "done"
    /\ pc' = "step1"
    /\ test_idx' = 1
    /\ duration' = None
    /\ attempted' = <<>>
    /\ record' = None
    /\ UNCHANGED <<prog, data, fs, output, f1_vars, pure_vars>>

\* the example of the specification: 0-10 s intro, 10-20 s verse
ExampleSegments ==
    <<JsonDict({"start", "end", "label"}, 0, 0, 1000, "intro"),
      JsonDict({"start", "end", "label"}, 1000, 0, 2000, "verse")>>

\* the states of the five audio locations: only the first three are
\* candidates when file_path is relative, and then the model keeps the
\* sample-data directories empty but for one readable file
FileStates == {Missing, Unreadable} \cup {Readable(d) : d \in AudioDurations}
CandidateStates(abs) ==
    {c \in [1..5 -> FileStates] :
        abs \/ (c[4] \in {Missing, Readable(Rat(3000, 1))} /\ c[5] = Missing)}

\* Inputs: every state of the candidate audio paths with the beats varied
\* (the stems directory and earlier artifacts are looked at when probed),
\* every state of the four stem files with no other audio, and every
\* beats, downbeats and segments input on a file system without audio.
InitDissector ==
    /\ prog = "dissector"
    /\ pc = "step1"
    /\ \/ \E abs \in BOOLEAN :
            /\ data \in {DissectorData(b, None, s, abs) :
                           b \in Optional(BeatLists),
                           s \in {None, Some(ExampleSegments)}}
            /\ fs \in {[FsUnknown EXCEPT !.cand = c] : c \in CandidateStates(abs)}
       \/ /\ fs \in {[FsEmpty EXCEPT !.stems = Unprobed, !.stemfile = sf] :
                         sf \in StemFiles}
          /\ data \in {DissectorData(b, None, None, FALSE) :
                         b \in {None, Some(<<1000>>)}}
       \/ /\ fs = FsEmpty
          /\ data \in {DissectorData(b, d, s, abs) :
                         b \in Optional(BeatLists),
                         d \in Optional(DownbeatLists),
                         s \in Optional(SegmentLists),
                         abs \in BOOLEAN}
    /\ ConvStart

NextDissector ==
    \/ ProbeAudioCandidate
    \/ ProbeStems
    \/ ProbeMp3
    \/ EstimateDuration
    \/ BuildRecord
    \/ WriteOutputs
    \/ WriteOutputsRaises
    \/ ConvertAgain

(***************************************************************************)
(* convert_segments_format, convert_json_to_ui_format                      *)
(***************************************************************************)
\* seg.get(key, default) on one element of a segments list
SegGet(seg, key, default) == IF key \in seg.keys THEN seg[key] ELSE default

convert_segments_format(segments) ==
    IF ~Truthy(segments) THEN <<>>
    ELSE IF segments[1].kind = "dict"
    THEN [i \in 1..Len(segments) |->
            SegGet(segments[i], "start", SegGet(segments[i], "time", 0))]
    ELSE IF segments[1].kind = "list"
    THEN [i \in 1..Len(segments) |-> segments[i].items[1]]
    ELSE [i \in 1..Len(segments) |-> segments[i].num]

\* a JSON object with optional keys: keys holds the keys present
InferencesObject(s, b, d) ==
    [keys |-> KeyIf("segments", s) \cup KeyIf("beats", b) \cup KeyIf("downbeats", d),
     segments |-> OrElse(s, <<>>), beats |-> OrElse(b, <<>>),
     downbeats |-> OrElse(d, <<>>)]
TruthsObject(s) == [keys |-> KeyIf("segments", s), segments |-> OrElse(s, <<>>)]
\* scores: {"beat": {"f1": 1.0}} with an optional "bpm" beside f1
ScoresObject(bpm) ==
    [keys |-> {"beat"},
     beat |-> [keys |-> {"f1"} \cup KeyIf("bpm", bpm), f1 |-> One,
               bpm |-> OrElse(bpm, 0)]]
NoObject == [keys |-> {}]

\* the input of convert_json_to_ui_format
UiData(dur, segs, inf, tr, sc) ==
    [keys |-> KeyIf("duration", dur) \cup KeyIf("segments", segs)
                \cup KeyIf("inferences", inf) \cup KeyIf("truths", tr)
                \cup KeyIf("scores", sc),
     duration |-> OrElse(dur, Zero),
     segments |-> OrElse(segs, <<>>),
     inferences |-> OrElse(inf, NoObject),
     truths |-> OrElse(tr, NoObject),
     scores |-> OrElse(sc, NoObject)]

\* get_duration_sec(audio_file): the decoded duration, 0.0 when it cannot be read
get_duration_sec(f) == IF f.st = "ok" THEN f.dur ELSE Zero

\* the estimate from the last segment: last_segment.get("end", 0) of an
\* object, last_segment[1] of a list of more than one item, else no change
EstimateFromSegments(d) ==
    LET last_segment == d.segments[Len(d.segments)] IN
    IF last_segment.kind = "dict"
    THEN [d EXCEPT !.keys = @ \cup {"duration"},
                   !.duration = Rat(SegGet(last_segment, "end", 0), 1)]
    ELSE IF last_segment.kind = "list" /\ Len(last_segment.items) > 1
    THEN [d EXCEPT !.keys = @ \cup {"duration"},
                   !.duration = Rat(last_segment.items[2], 1)]
    ELSE d

\* "if 'duration' not in data or data.get('duration', 0) == 0", with the
\* audio file found by find_audio_file in state f
WithDuration(d, f) ==
    IF "duration" \in d.keys /\ ~RatEq(d.duration, Zero) THEN d
    ELSE IF PathExists(f)
    THEN IF ~RatLe(get_duration_sec(f), Zero)
         THEN [d EXCEPT !.keys = @ \cup {"duration"}, !.duration = get_duration_sec(f)]
         ELSE d
    ELSE IF "segments" \in d.keys /\ Truthy(d.segments)
    THEN EstimateFromSegments(d)
    ELSE d

UiResolveDuration ==
    /\ prog = "ui"
    /\ pc = "ui_duration"
    /\ LET d == Val(record)
           probes == "duration" \notin d.keys \/ RatEq(d.duration, Zero)
       IN  \E f \in (IF probes THEN Probe(fs.audio) ELSE {fs.audio}) :
             /\ fs' = [fs EXCEPT !.audio = f]
             /\ record' = Some(WithDuration(d, f))
    /\ pc' = "ui_stems"
    /\ UNCHANGED <<prog, data, test_idx, duration, attempted, output, f1_vars, pure_vars>>

\* process_stem_audio(..., num_frames=5000)
NumFrames == 5000
\* the frame count of the nav data of process_stem_audio
NavFrames == 1000
\* the frame count of the dummy data written without a stem directory
DummyFrames == 5000

\* generate_frequency_bands(audio, num_frames) for a stem that was loaded:
\* three lists of num_frames values
generate_frequency_bands(num_frames) == Envelope(num_frames, "features")

\* whether process_stem_audio raises: load_audio_and_process is called
\* outside any try, a stem file that cannot be decoded ends the call
ProcessStemAudioRaises(stemfile) ==
    \E i \in Instruments : stemfile[i] = "unreadable"

\* wav_data and nav_data of process_stem_audio
ProcessStemAudioWav(stemfile) ==
    [i \in Instruments |->
        IF stemfile[i] /= "missing" THEN generate_frequency_bands(NumFrames)
        ELSE Envelope(NumFrames, "dummy")]
ProcessStemAudioNav(stemfile) ==
    [i \in Instruments |->
        IF stemfile[i] /= "missing" THEN generate_frequency_bands(NavFrames)
        ELSE Envelope(NavFrames, "dummy")]

\* without a stem directory: wav_data = nav_data = the same dummy data
DummyData == [i \in Instruments |-> Envelope(DummyFrames, "dummy")]

\* lines 252-276: data["wav"] and data["nav"]; an exception of
\* process_stem_audio is caught by the except of the conversion, which
\* logs it and returns False
UiStems ==
    /\ prog = "ui"
    /\ pc = "ui_stems"
    /\ LET d == Val(record) IN
       IF fs.stemdir /\ ProcessStemAudioRaises(fs.stemfile)
       THEN pc' = "failed" /\ record' = record
       ELSE /\ pc' = "ui_inferences"
            /\ record' = Some(
                 [wav |-> IF fs.stemdir THEN ProcessStemAudioWav(fs.stemfile)
                          ELSE DummyData,
                  nav |-> IF fs.stemdir THEN ProcessStemAudioNav(fs.stemfile)
                          ELSE DummyData]
                 @@ [d EXCEPT !.keys = @ \cup {"wav", "nav"}])
    /\ UNCHANGED <<prog, data, fs, test_idx, duration, attempted, output, f1_vars, pure_vars>>

\* list(np.arange(0, stop, step)) for step > 0: ceil(stop / step) values
\* 0, step, 2 * step, ..., none when stop <= 0
ArangeLen(stop, step) ==
    LET num == stop[1] * step[2]
        den == stop[2] * step[1]
    IN  IF num <= 0 THEN 0 ELSE (num + den - 1) \div den
Arange(stop, step) ==
    [k \in 1..ArangeLen(stop, step) |-> RatMul(Rat(k - 1, 1), step)]

\* beats[::4]
EveryFourth(beats) == [i \in 1..((Len(beats) + 3) \div 4) |-> beats[4 * (i - 1) + 1]]

\* data.get("scores", {}).get("beat", {}).get("bpm", 120)
DefaultBpm == 120
\* data.get("duration", 240) (seconds, counted in 1/100 s)
UiDefaultDuration == 24000

\* data["inferences"] after the block "if 'inferences' in data"
FixInferences(d) ==
    LET inf == d.inferences
        segs == IF "segments" \in inf.keys
                THEN convert_segments_format(inf.segments) ELSE <<>>
        bpm == Get(Get(Get(d, "scores", NoObject), "beat", NoObject), "bpm", DefaultBpm)
        dur == Get(d, "duration", Rat(UiDefaultDuration, 1))
        beat_interval == Rat(6000, bpm)
        beats == IF Truthy(Get(inf, "beats", <<>>))
                 THEN [i \in 1..Len(inf.beats) |-> Rat(inf.beats[i], 1)]
                 ELSE Arange(dur, beat_interval)
        downbeats == IF Truthy(Get(inf, "downbeats", <<>>))
                     THEN [i \in 1..Len(inf.downbeats) |-> Rat(inf.downbeats[i], 1)]
                     ELSE IF Truthy(beats) THEN EveryFourth(beats) ELSE <<>>
    IN  [keys |-> inf.keys \cup {"beats", "downbeats"},
         segments |-> segs, beats |-> beats, downbeats |-> downbeats]

\* data["truths"] after the block "if 'truths' in data"
FixTruths(d) ==
    [keys |-> d.truths.keys,
     segments |-> IF "segments" \in d.truths.keys
                  THEN convert_segments_format(d.truths.segments) ELSE <<>>]

\* the scores written when the input holds none
DefaultScores ==
    [keys |-> {"beat", "downbeat", "segment"},
     beat |-> [keys |-> {"f1"}, f1 |-> One, bpm |-> 0],
     downbeat |-> [keys |-> {"f1"}, f1 |-> One],
     segment |-> ("F-measure@0.5" :> One) @@ ("Pairwise F-measure" :> One)]

\* lines 278-310: inferences, truths and scores
UiFixRecord ==
    /\ prog = "ui"
    /\ pc = "ui_inferences"
    /\ LET d == Val(record) IN
       record' = Some([d EXCEPT
           !.inferences = IF "inferences" \in d.keys THEN FixInferences(d) ELSE @,
           !.truths = IF "truths" \in d.keys THEN FixTruths(d) ELSE @,
           !.scores = IF "scores" \in d.keys THEN @ ELSE DefaultScores,
           !.keys = @ \cup {"scores"}])
    /\ pc' = "ui_write"
    /\ UNCHANGED <<prog, data, fs, test_idx, duration, attempted, output, f1_vars, pure_vars>>

\* "_converted.json"
ConvertedSuffix ==
    <<"_", "c", "o", "n", "v", "e", "r", "t", "e", "d", ".", "j", "s", "o", "n">>

\* mutant: an output path that keeps the input's name
OutputJsonNameSame(input_name) == input_name

\* output_json_path when none is given: the name of
\* input_json_path.parent / f"{input_json_path.stem}_converted.json"
OutputJsonName(input_name) == Stem(input_name) \o ConvertedSuffix

\* json.dump(data, f); return True
UiWrite ==
    /\ prog = "ui"
    /\ pc = "ui_write"
    /\ output' = record
    /\ fs' = [fs EXCEPT !.input_json =
                 IF OutputJsonName(fs.input_json_path) = fs.input_json_path
                 THEN "written" ELSE @]
    /\ pc' = "done"
    /\ UNCHANGED <<prog, data, test_idx, duration, attempted, record, f1_vars, pure_vars>>

\* mutant: the write failure reported as a success
UiWriteFailsReturnsTrue ==
    /\ prog = "ui"
    /\ pc = "ui_write"
    /\ output' = Truncated
    /\ pc' = "done"
    /\ UNCHANGED <<prog, data, fs, test_idx, duration, attempted, record, f1_vars, pure_vars>>

\* open(output_json_path, 'w') or json.dump raises: the except branch
\* logs the error and returns False; a file that was opened is truncated
UiWriteFails ==
    /\ prog = "ui"
    /\ pc = "ui_write"
    /\ \E point \in {"open", "dump"} :
         /\ output' = IF point = "dump" THEN Truncated ELSE output
         /\ fs' = [fs EXCEPT !.input_json =
                      IF point = "dump"
                         /\ OutputJsonName(fs.input_json_path) = fs.input_json_path
                      THEN "written" ELSE @]
    /\ pc' = "write_failed"
    /\ UNCHANGED <<prog, data, test_idx, duration, attempted, record, f1_vars, pure_vars>>

\* names of the input JSON file: "a", "a.a", ".a", "a.", "a_1.a"
InputJsonNames ==
    {<<"a">>, <<"a", ".", "a">>, <<".", "a">>, <<"a", ".">>,
     <<"a", "_", "1", ".", "a">>}

\* what an earlier conversion left at the output path
ExistingOutput == Some(UiData(None, None, None, None, None))

\* durations an input can state: none, 0 and 3 s
UiDurations == {None, Some(Rat(0, 1)), Some(Rat(300, 1))}

\* Inputs: an analyzer-style object (segments at the top level) or a
\* record-style object (inferences, truths, scores).
InitUi ==
    /\ prog = "ui"
    /\ pc = "ui_duration"
    /\ \/ /\ fs \in {[FsUnknown EXCEPT !.stemdir = TRUE, !.stemfile = sf] :
                       sf \in StemFiles}
          /\ data \in {UiData(dur, None, None, None, None) : dur \in UiDurations}
          /\ output \in {None, ExistingOutput}
       \/ /\ fs \in {[FsUnknown EXCEPT !.input_json_path = n] : n \in InputJsonNames}
          /\ data \in {UiData(dur, s, None, None, None) :
                      dur \in UiDurations, s \in Optional(SegmentLists)}
          /\ output = None
       \/ /\ fs = FsUnknown
          /\ output = None
          /\ data \in {UiData(dur, None, Some(InferencesObject(s, b, d)),
                           Some(TruthsObject(s)), sc) :
                      dur \in UiDurations, s \in Optional(SegmentLists),
                      b \in Optional(BeatLists),
                      d \in {None, Some(<<>>), Some(<<0>>)},
                      sc \in {None, Some(ScoresObject(None)),
                              Some(ScoresObject(Some(60)))}}
    /\ test_idx = 1
    /\ duration = None
    /\ attempted = <<>>
    /\ record = Some(data)
    /\ pred_times = <<>>
    /\ true_times = <<>>
    /\ tolerance = DefaultTolerance
    /\ f1_result = None
    /\ PureIdle

NextUi ==
    \/ UiResolveDuration
    \/ UiStems
    \/ UiFixRecord
    \/ UiWrite
    \/ UiWriteFails

Init == InitDissector \/ InitUi

Next == NextDissector \/ NextUi

Spec == Init /\ [][Next]_vars

(***************************************************************************)
(* Claims about calculate_f1_score, checked under SpecF1                   *)
(***************************************************************************)
\* C1 (as claimed): for every tolerance >= 0 and every pair of timestamp
\* lists, repeated timestamps included, the returned score lies in [0, 1].
C1_ScoreInUnitInterval ==
    ~IsNone(f1_result) =>
        RatLe(Zero, Val(f1_result)) /\ RatLe(Val(f1_result), One)

\* the reference score: matched_count counts the predicted timestamps with
\* some reference timestamp within the tolerance, bound included, no
\* reference timestamp ever consumed
MatchedCount(pt, tt, tol) ==
    Cardinality({i \in 1..Len(pt) :
                   \E j \in 1..Len(tt) : pt[i] - tt[j] <= tol /\ tt[j] - pt[i] <= tol})
ReferenceF1(pt, tt, tol) ==
    LET m == MatchedCount(pt, tt, tol)
        P == Len(pt)
        T == Len(tt)
    IN  \* precision = m/P, recall = m/T, precision + recall = m(P+T)/(PT)
        IF m * (P + T) = 0 THEN Zero
        ELSE \* 2 * (m/P) * (m/T) / (m(P+T)/(PT))
             Rat(2 * m * m * P * T, P * T * m * (P + T))

\* C2: for non-empty lists that are not identical, the returned score is
\* the reference score (inclusive bound, reference timestamps not
\* consumed, 0 when precision + recall = 0, else 2pr/(p+r)).
C2_ScoreIsReference ==
    (/\ ~IsNone(f1_result)
     /\ pred_times /= <<>>
     /\ true_times /= <<>>
     /\ pred_times /= true_times)
    => RatEq(Val(f1_result), ReferenceF1(pred_times, true_times, tolerance))

\* C2 witness: two predictions, each exactly one tolerance away from the
\* single reference timestamp, both matched by it
C2_Witness ==
    /\ pred_times = <<1, 3>>
    /\ true_times = <<2>>
    /\ tolerance = 1
    /\ ~IsNone(f1_result)
    /\ RatEq(Val(f1_result), Rat(4, 3))

(***************************************************************************)
(* Claims about the duration chain of convert_to_music_dissector           *)
(***************************************************************************)
\* the steps entered are 1, 2, ..., k in this order
IsChainPrefix(a) == \A i \in 1..Len(a) : a[i] = i

\* C3: the chain is ordered and short-circuiting.  A step is entered only
\* while no earlier step has given a duration, the steps entered are
\* 1, 2, ... in order, the default (step 5) is entered only without beats,
\* a duration once given is never changed (a zero one included), and it
\* is the duration of the record.
C3_ChainStep ==
    \* a step taken after "done" starts another conversion
    \/ pc = "done"
    \/ /\ (attempted' /= attempted => IsNone(duration))
       /\ IsChainPrefix(attempted')
       /\ ((\E i \in 1..Len(attempted') : attempted'[i] = 5)
             => ~Truthy(Get(data, "beats", <<>>)))
       /\ (~IsNone(duration) => duration' = duration)
       /\ ((prog' = "dissector" /\ ~IsNone(record'))
             => Val(record').duration = Val(duration'))
C3_ChainShortCircuits == [][C3_ChainStep]_vars

\* C3 witness: step 1 gave a duration of zero from an empty audio file,
\* beats were at hand, and no later step was entered
C3_Witness ==
    /\ prog = "dissector"
    /\ pc = "done"
    /\ attempted = <<1>>
    /\ RatEq(Val(duration), Zero)
    /\ Truthy(Get(data, "beats", <<>>))
    /\ Val(record).duration = Val(duration)

\* the candidate paths that exist and are readable
ReadableCandidates == {i \in 1..NumCandidates : fs.cand[i].st = "ok"}
FirstReadable ==
    CHOOSE i \in ReadableCandidates : \A j \in ReadableCandidates : i <= j

NoAudioDuration ==
    /\ ReadableCandidates = {}
    /\ fs.stems.st \in {"nodir", "nowav", "unreadable"}
    /\ \A j \in 1..NumMp3Paths : fs.mp3[j].st \in {"missing", "unreadable"}

\* C5: without a duration from steps 1-3, the duration is 1.17 times the
\* last beat when the beats list is non-empty and 240.0 s otherwise.
C5_EstimateOrDefault ==
    (prog = "dissector" /\ pc \in {"build", "output"} /\ NoAudioDuration)
    => LET beats == Get(data, "beats", <<>>)
           expected == IF beats /= <<>>
                       THEN Rat(117 * beats[Len(beats)], 100)
                       ELSE Rat(24000, 1)
       IN  /\ RatEq(Val(duration), expected)
           /\ (pc = "output" => RatEq(Val(record).duration, expected))

\* C5 witness: an unreadable stem, no other audio, beats 0 s and 10 s:
\* the record's duration is 11.7 s
C5_Witness ==
    /\ prog = "dissector"
    /\ pc = "output"
    /\ NoAudioDuration
    /\ fs.stems.st = "unreadable"
    /\ Get(data, "beats", <<>>) = <<0, 1000>>
    /\ RatEq(Val(record).duration, Rat(1170, 1))

(***************************************************************************)
(* Claims about the records of both conversions                            *)
(***************************************************************************)
\* C6 (as claimed): every record produced by a conversion has a duration
\* field, and its value is greater than 0.
C6_DurationPositive ==
    pc = "done" =>
        /\ prog = "ui" => "duration" \in Val(output).keys
        /\ ~RatLe(Val(output).duration, Zero)

\* a non-empty list of objects {start, end, label}
IsObjectList(segs) ==
    /\ segs /= <<>>
    /\ \A i \in 1..Len(segs) :
         segs[i].kind = "dict" /\ {"start", "end", "label"} \subseteq segs[i].keys
\* the start of each segment in input order
StartsOf(segs) == [i \in 1..Len(segs) |-> segs[i].start]
\* the starts followed by the end of the last segment
BoundariesOf(segs) ==
    [i \in 1..(Len(segs) + 1) |->
        IF i <= Len(segs) THEN segs[i].start ELSE segs[Len(segs)].end]
LabelsOf(segs) == [i \in 1..Len(segs) |-> segs[i].label]
\* the segments the conversion normalizes: data["segments"] in
\* convert_to_music_dissector, data["inferences"]["segments"] in
\* convert_json_to_ui_format
InputSegments ==
    IF prog = "dissector" THEN Get(data, "segments", <<>>)
    ELSE Get(Get(data, "inferences", NoObject), "segments", <<>>)

\* C7 (as claimed): for a non-empty list of segment objects both
\* normalizers yield the starts followed by the end of the last segment
\* (and the inline one the labels in input order).
C7_BothNormalizersAppendEnd ==
    (pc = "done" /\ IsObjectList(InputSegments))
    => /\ Val(output).inferences.segments = BoundariesOf(InputSegments)
       /\ prog = "dissector"
            => Val(output).inferences.labels = LabelsOf(InputSegments)

\* C7 (amended): the inline normalizer of convert_to_music_dissector yields
\* the starts followed by the end of the last segment, and the labels in
\* input order; convert_segments_format yields the starts only.
C7_InlineAppendsEndFormatDoesNot ==
    (pc = "done" /\ IsObjectList(InputSegments))
    => IF prog = "dissector"
       THEN /\ Val(output).inferences.segments = BoundariesOf(InputSegments)
            /\ Val(output).inferences.labels = LabelsOf(InputSegments)
       ELSE /\ Val(output).inferences.segments = StartsOf(InputSegments)
            /\ Val(output).truths.segments = StartsOf(InputSegments)

\* C7 witness: the example 0-10 s intro, 10-20 s verse gives the boundaries
\* 0, 10, 20 s and the labels intro, verse
C7_Witness ==
    /\ prog = "dissector"
    /\ pc = "done"
    /\ InputSegments = ExampleSegments
    /\ Val(output).inferences.segments = <<0, 1000, 2000>>
    /\ Val(output).inferences.labels = <<"intro", "verse">>

\* C8 (as claimed): in every record of convert_to_music_dissector, for
\* inferences and for truths, len(labels) = len(segments) - 1.
C8_OneLabelFewer ==
    (prog = "dissector" /\ pc = "done")
    => /\ Len(Val(output).inferences.labels) = Len(Val(output).inferences.segments) - 1
       /\ Len(Val(output).truths.labels) = Len(Val(output).truths.segments) - 1

\* C8 (amended): len(labels) = len(segments) - 1 when the input has at
\* least one segment; without segments both lists are empty.
C8_OneLabelFewerUnlessEmpty ==
    (prog = "dissector" /\ pc = "done")
    => LET inf == Val(output).inferences
           tr == Val(output).truths
       IN  IF Truthy(InputSegments)
           THEN /\ Len(inf.labels) = Len(InputSegments)
                /\ Len(inf.labels) = Len(inf.segments) - 1
                /\ Len(tr.labels) = Len(tr.segments) - 1
           ELSE /\ inf.segments = <<>> /\ inf.labels = <<>>
                /\ tr.segments = <<>> /\ tr.labels = <<>>

\* C8 witness: two segments give three boundaries and two labels, in
\* inferences and in truths
C8_Witness ==
    /\ prog = "dissector"
    /\ pc = "done"
    /\ Len(InputSegments) = 2
    /\ Len(Val(output).inferences.segments) = 3
    /\ Len(Val(output).inferences.labels) = 2
    /\ Len(Val(output).truths.segments) = 3
    /\ Len(Val(output).truths.labels) = 2

\* a non-empty list of pairs [start, end], resp. of numbers
IsPairList(segs) ==
    segs /= <<>> /\ \A i \in 1..Len(segs) : segs[i].kind = "list"
IsFlatList(segs) ==
    segs /= <<>> /\ \A i \in 1..Len(segs) : segs[i].kind = "num"

\* C9 (as claimed): segments in any of the three upstream shapes are
\* accepted: the conversion does not raise, and the record's segments are
\* numbers, a pair giving its first element, a flat list passing through.
C9_ThreeShapesAccepted ==
    (IsObjectList(InputSegments) \/ IsPairList(InputSegments)
        \/ IsFlatList(InputSegments))
    => /\ pc /= "raised"
       /\ (pc = "done" /\ IsPairList(InputSegments))
            => Val(output).inferences.segments
                 = [i \in 1..Len(InputSegments) |-> InputSegments[i].items[1]]
       /\ (pc = "done" /\ IsFlatList(InputSegments))
            => Val(output).inferences.segments
                 = [i \in 1..Len(InputSegments) |-> InputSegments[i].num]

\* C10 (as claimed): whenever truths equal inferences, all four scores of
\* the record are 1.0, also with empty or missing beats or downbeats.
C10_ScoresAllOne ==
    (prog = "dissector" /\ pc = "done"
        /\ Val(output).truths = Val(output).inferences)
    => /\ RatEq(Val(output).scores.beat.f1, One)
       /\ RatEq(Val(output).scores.downbeat.f1, One)
       /\ RatEq(Val(output).scores.segment["F-measure@0.5"], One)
       /\ RatEq(Val(output).scores.segment["Pairwise F-measure"], One)

\* the four score keys of a written record: the records of
\* convert_to_music_dissector always hold the object built at lines 340-357,
\* those of convert_json_to_ui_format hold the keys listed in keys
HasAllScoreKeys(rec) ==
    IF prog = "dissector"
    THEN /\ DOMAIN rec.scores = {"beat", "downbeat", "segment"}
         /\ "f1" \in DOMAIN rec.scores.beat
         /\ "f1" \in DOMAIN rec.scores.downbeat
         /\ {"F-measure@0.5", "Pairwise F-measure"} \subseteq DOMAIN rec.scores.segment
    ELSE /\ "scores" \in rec.keys
         /\ {"beat", "downbeat", "segment"} \subseteq rec.scores.keys
         /\ "f1" \in rec.scores.beat.keys
         /\ "f1" \in rec.scores.downbeat.keys
         /\ {"F-measure@0.5", "Pairwise F-measure"} \subseteq DOMAIN rec.scores.segment

\* C11 (as claimed): every record written by a successful conversion holds
\* scores.beat.f1, scores.downbeat.f1, scores.segment["F-measure@0.5"] and
\* scores.segment["Pairwise F-measure"], also when the input's scores
\* field is absent or holds only some of the keys.
C11_ScoreKeysPresent ==
    pc = "done" => HasAllScoreKeys(Val(output))

(***************************************************************************)
(* Record ids: file_id of convert_to_music_dissector, the id added by      *)
(* convert_json_to_ui_format, MusicAnalyzer.normalize_filename             *)
(* (music_analyzer.py).  A name is a sequence of characters; each          *)
(* character below stands for its class: "a" a lower-case ASCII letter,    *)
(* "A" an upper-case one, "0" and "1" digits, "eacute" a letter outside    *)
(* ASCII (matched by \W+ as a word character), "_", ".", "-".              *)
(***************************************************************************)
\* longest file name of an input
MaxNameLen == 4

NameChars == {"a", "A", "1", "_", ".", "-", "eacute"}
Digits == {"0", "1"}
Names == SeqsUpTo(NameChars, MaxNameLen)

\* the scorer is not running
F1Idle ==
    /\ pred_times = <<>>
    /\ true_times = <<>>
    /\ tolerance = DefaultTolerance
    /\ f1_result = None

\* the characters of s that are in the set kept, in order
RECURSIVE Filter(_, _)
Filter(s, kept) ==
    IF s = <<>> THEN <<>>
    ELSE (IF Head(s) \in kept THEN <<Head(s)>> ELSE <<>>) \o Filter(Tail(s), kept)

\* str.lower()
Lower(s) == [i \in 1..Len(s) |-> IF s[i] = "A" THEN "a" ELSE s[i]]

\* \w of a str pattern: letters of any script, digits and the underscore
WordChars == {"a", "A", "0", "1", "_", "eacute"}

\* file_id = "0000_" + re.sub(r'\W+', '', audio_path.stem.lower())
FileId(name) ==
    <<"0", "0", "0", "0", "_">> \o Filter(Lower(Stem(name)), WordChars)

\* base_name.replace(" ", "").replace("-", "").lower()
Normalized(filename) ==
    Lower(Filter(Stem(filename), (NameChars \cup Digits) \ {" ", "-"}))

\* str.isdigit(): at least one character and every character a digit
IsDigitStr(s) == s /= <<>> /\ \A i \in 1..Len(s) : s[i] \in Digits

\* normalized[:4]
FirstFour(s) == SubSeq(s, 1, IF Len(s) < 4 THEN Len(s) ELSE 4)

\* a file name is chosen, nothing called on it
InitId ==
    /\ call = "name"
    /\ args \in Names
    /\ ret = None
    /\ ConvIdle
    /\ F1Idle

\* convert_to_music_dissector, lines 173-179
GenerateFileId ==
    /\ call = "name"
    /\ call' = "file_id"
    /\ ret' = Some(FileId(args))
    /\ UNCHANGED <<args, conv_vars, f1_vars>>

\* convert_json_to_ui_format, "if 'id' not in data: data['id'] = input_json_path.stem"
UiAddId ==
    /\ call = "name"
    /\ call' = "ui_id"
    /\ ret' = Some(Stem(args))
    /\ UNCHANGED <<args, conv_vars, f1_vars>>

\* MusicAnalyzer.normalize_filename; the prefix is the last four decimal
\* digits of a number read from the md5 digest: any four digits
normalize_filename ==
    /\ call = "name"
    /\ call' = "normalize_filename"
    /\ LET normalized == Normalized(args) IN
       IF ~IsDigitStr(FirstFour(normalized))
       THEN \E prefix \in [1..4 -> Digits] :
              ret' = Some(prefix \o <<"_">> \o normalized)
       ELSE ret' = Some(normalized)
    /\ UNCHANGED <<args, conv_vars, f1_vars>>

\* normalize_filename called on the name it returned
normalize_filename_again ==
    /\ call = "normalize_filename"
    /\ call' = "normalize_filename_again"
    /\ args' = Val(ret)
    /\ LET normalized == Normalized(Val(ret)) IN
       IF ~IsDigitStr(FirstFour(normalized))
       THEN \E prefix \in [1..4 -> Digits] :
              ret' = Some(prefix \o <<"_">> \o normalized)
       ELSE ret' = Some(normalized)
    /\ UNCHANGED <<conv_vars, f1_vars>>

NextId ==
    \/ GenerateFileId
    \/ UiAddId
    \/ normalize_filename
    \/ normalize_filename_again

SpecId == InitId /\ [][NextId]_vars

\* ^[0-9]{4}_[a-z0-9]+$
MatchesIdPattern(s) ==
    /\ Len(s) >= 6
    /\ \A i \in 1..4 : s[i] \in Digits
    /\ s[5] = "_"
    /\ \A i \in 6..Len(s) : s[i] \in {"a"} \cup Digits

\* C12 (as claimed): the id of every produced record and every name
\* returned by normalize_filename matches ^[0-9]{4}_[a-z0-9]+$, whatever
\* the source file name.
C12_IdMatchesPattern ==
    ~IsNone(ret) => MatchesIdPattern(Val(ret))

(***************************************************************************)
(* Claims about the Envelopes of a record, checked under Spec              *)
(***************************************************************************)
Tiers == {"wav", "nav"}
BandsAgree(e) == e.low.len = e.mid.len /\ e.mid.len = e.high.len

\* C13: in every produced record the low, mid and high lists of each
\* Envelope have equal length, and within one tier (wav, nav) the Envelope
\* length is the same for the four stems, whatever stem files are present,
\* missing or undecodable.
C13_EnvelopeLengthsAgree ==
    pc = "done" =>
        \A t \in Tiers : \A i, j \in Instruments :
            /\ BandsAgree(Val(output)[t][i])
            /\ Val(output)[t][i].low.len = Val(output)[t][j].low.len

\* C13 witness: a record of convert_to_music_dissector written with one
\* stem decoded, one undecodable and one missing, of 1170 frames each
C13_Witness ==
    /\ prog = "dissector"
    /\ pc = "done"
    /\ fs.stemfile["bass"] = "ok"
    /\ fs.stemfile["drum"] = "unreadable"
    /\ fs.stemfile["other"] = "missing"
    /\ Val(output).nav["bass"] = Envelope(1170, "features")
    /\ Val(output).nav["drum"] = Envelope(1170, "zeros")
    /\ Val(output).wav["other"] = Envelope(1170, "zeros")

\* C14 (as claimed): in every produced record the nav Envelopes have one
\* fixed length, shorter than the length of the wav Envelopes.
C14_NavShorterThanWav ==
    pc = "done" =>
        \A i \in Instruments :
            /\ Val(output).nav[i].low.len = NavFrames
            /\ Val(output).nav[i].low.len < Val(output).wav[i].low.len

\* a stem whose source file, or whose whole stem directory, is absent
StemAbsent(i) == fs.stemfile[i] = "missing" \/ (prog = "ui" /\ ~fs.stemdir)
IsZeros(e) == e.low.fill = "zeros" /\ e.mid.fill = "zeros" /\ e.high.fill = "zeros"

\* C15 (as claimed): for each stem whose source file or stem directory is
\* absent the record holds an Envelope of zeros, and the conversion still
\* completes and writes the record.
C15_AbsentStemIsZeros ==
    /\ pc = "done" =>
         \A i \in Instruments :
            StemAbsent(i) => IsZeros(Val(output).wav[i]) /\ IsZeros(Val(output).nav[i])
    /\ (\A i \in Instruments : StemAbsent(i)) => pc /= "failed"

\* a stem file that exists and cannot be decoded
StemUndecodable(i) ==
    fs.stemfile[i] = "unreadable" /\ (prog = "ui" => fs.stemdir)

\* C16 (as claimed): when a stem file exists but cannot be decoded, the
\* conversion still completes and writes a record in which the other
\* stems are processed normally.
C16_DecodeFailureConfined ==
    (\E i \in Instruments : StemUndecodable(i))
    => /\ pc /= "failed"
       /\ pc = "done" =>
            \A j \in Instruments :
               fs.stemfile[j] = "ok" => Val(output).wav[j].low.fill = "features"

(***************************************************************************)
(* extract_audio_features (convert_to_music_dissector.py), on explicit     *)
(* lists.  The magnitudes of the transform are small integers, the         *)
(* energies and the values returned are exact rationals.                   *)
(***************************************************************************)
\* most samples of a loaded signal
MaxSamples == 1
\* largest target_length
MaxTarget == 3
\* freq_bins = D.shape[0]: the rows of the transform, here three, one a
\* band (librosa gives 1 + n_fft / 2 = 1025 rows)
FreqBins == 3
\* the magnitudes np.abs(librosa.stft(...)) holds
Magnitudes == {0, 1, 2}

RatSub(a, b) == RatAdd(a, Rat(-b[1], b[2]))

\* the sum of column t of the rows a..b of D
RECURSIVE ColumnSum(_, _, _, _)
ColumnSum(D, a, b, t) ==
    IF a > b THEN 0 ELSE D[a][t] + ColumnSum(D, a + 1, b, t)

\* np.mean(D[a - 1:b, :], axis=0): one mean a frame
BandMean(D, a, b) ==
    [t \in 1..Len(D[1]) |-> Rat(ColumnSum(D, a, b, t), b - a + 1)]

low_end == FreqBins \div 3
mid_end == (2 * FreqBins) \div 3

\* arr.max()
ArrMax(arr) ==
    arr[CHOOSE i \in 1..Len(arr) : \A j \in 1..Len(arr) : RatLe(arr[j], arr[i])]

\* mutant: the scaling without the division by the maximum
normalizeUnscaled(arr) ==
    IF ~RatLe(ArrMax(arr), Zero)
    THEN [i \in 1..Len(arr) |-> Rat((arr[i][1] * 255) \div arr[i][2], 1)]
    ELSE arr

\* normalize(arr): (arr / arr.max() * 255).astype(int) when the maximum is
\* positive, else arr as it is
normalize(arr) ==
    IF ~RatLe(ArrMax(arr), Zero)
    THEN [i \in 1..Len(arr) |->
            Rat((arr[i][1] * ArrMax(arr)[2] * 255) \div (arr[i][2] * ArrMax(arr)[1]), 1)]
    ELSE arr

\* np.linspace(0, stop, num)[k - 1]
Linspace(stop, num, k) ==
    IF num = 1 THEN Zero ELSE Rat((k - 1) * stop, num - 1)

\* np.interp(x, np.arange(len(arr)), arr) for one x in [0, len(arr) - 1]
Interp(x, arr) ==
    LET i == x[1] \div x[2] IN
    IF i >= Len(arr) - 1 THEN arr[Len(arr)]
    ELSE RatAdd(arr[i + 1],
                RatMul(Rat(x[1] - i * x[2], x[2]), RatSub(arr[i + 2], arr[i + 1])))

\* resample_to_length(arr, target_len), arr not empty
resample_to_length(arr, target_len) ==
    IF Len(arr) = target_len THEN arr
    ELSE [k \in 1..target_len |-> Interp(Linspace(Len(arr) - 1, target_len, k), arr)]

\* the dict returned on the success path
Features(D, target_length) ==
    [low |-> resample_to_length(normalize(BandMean(D, 1, low_end)), target_length),
     mid |-> resample_to_length(normalize(BandMean(D, low_end + 1, mid_end)),
                                target_length),
     high |-> resample_to_length(normalize(BandMean(D, mid_end + 1, FreqBins)),
                                 target_length)]

\* mutant: the except branch returning empty lists
ErrorFeaturesEmpty(target_length) == [low |-> <<>>, mid |-> <<>>, high |-> <<>>]

\* the dict returned by the except branch: [0.0] * target_length a band
ErrorFeatures(target_length) ==
    [low |-> [k \in 1..target_length |-> Zero],
     mid |-> [k \in 1..target_length |-> Zero],
     high |-> [k \in 1..target_length |-> Zero]]

\* the locals of a call: the length of the signal the file holds, the
\* hop length, the magnitudes, and the step that raised ("none": no step)
FeatLocals(target_length, y_len) ==
    [target_length |-> target_length, y_len |-> y_len, hop_length |-> 0,
     D |-> <<>>, failed |-> "none"]

InitFeat ==
    /\ call = "load"
    /\ args \in {FeatLocals(n, l) : n \in 0..MaxTarget, l \in 0..MaxSamples}
    /\ ret = None
    /\ ConvIdle
    /\ F1Idle

\* a step raises: control goes to the except branch
Raise(step) ==
    /\ call' = "except"
    /\ args' = [args EXCEPT !.failed = step]

\* y, sr = librosa.load(audio_path, sr=None)
FeatLoad ==
    /\ call = "load"
    /\ \/ call' = "hop" /\ args' = args
       \/ Raise("load")
    /\ UNCHANGED <<ret, conv_vars, f1_vars>>

\* hop_length = len(y) // target_length, at least 1; the division raises
\* ZeroDivisionError for target_length = 0
FeatHop ==
    /\ call = "hop"
    /\ IF args.target_length = 0
       THEN Raise("hop")
       ELSE /\ call' = "stft"
            /\ args' = [args EXCEPT !.hop_length =
                          IF args.y_len \div args.target_length < 1 THEN 1
                          ELSE args.y_len \div args.target_length]
    /\ UNCHANGED <<ret, conv_vars, f1_vars>>

\* D = np.abs(librosa.stft(y, hop_length=hop_length)): freq_bins rows of
\* 1 + len(y) // hop_length frames
FeatStft ==
    /\ call = "stft"
    /\ \/ \E D \in [1..FreqBins ->
                      [1..(1 + args.y_len \div args.hop_length) -> Magnitudes]] :
            /\ call' = "return"
            /\ args' = [args EXCEPT !.D = D]
       \/ Raise("stft")
    /\ UNCHANGED <<ret, conv_vars, f1_vars>>

\* the band energies, their normalization and resampling, and the return
FeatReturn ==
    /\ call = "return"
    /\ \/ /\ call' = "returned"
          /\ ret' = Some(Features(args.D, args.target_length))
          /\ args' = args
       \/ Raise("normalize") /\ ret' = ret
       \/ Raise("resample") /\ ret' = ret
    /\ UNCHANGED <<conv_vars, f1_vars>>

\* except Exception: the zero lists are returned
FeatExcept ==
    /\ call = "except"
    /\ call' = "returned"
    /\ ret' = Some(ErrorFeatures(args.target_length))
    /\ UNCHANGED <<args, conv_vars, f1_vars>>

NextFeat ==
    \/ FeatLoad
    \/ FeatHop
    \/ FeatStft
    \/ FeatReturn
    \/ FeatExcept

SpecFeat == InitFeat /\ [][NextFeat]_vars

\* a list of exactly n values, each in [0, 255]
IsByteList(l, n) ==
    /\ Len(l) = n
    /\ \A k \in 1..Len(l) : RatLe(Zero, l[k]) /\ RatLe(l[k], Rat(255, 1))

\* C17: for every magnitude matrix of at least one frame and every target
\* frame count N >= 1, extract_audio_features returns low, mid and high of
\* exactly N values each, every value in [0, 255], on the success path and
\* on the error path.
C17_FeaturesAreByteLists ==
    (call = "returned" /\ args.target_length >= 1)
    => /\ IsByteList(Val(ret).low, args.target_length)
       /\ IsByteList(Val(ret).mid, args.target_length)
       /\ IsByteList(Val(ret).high, args.target_length)

\* C17 witness: two frames resampled to three values, 127 from the
\* truncation of 127.5, the value 191 interpolated between 127 and 255
C17_Witness ==
    /\ call = "returned"
    /\ args.failed = "none"
    /\ args.target_length = 3
    /\ args.D[1] = <<1, 2>>
    /\ RatEq(Val(ret).low[1], Rat(127, 1))
    /\ RatEq(Val(ret).low[2], Rat(191, 1))
    /\ RatEq(Val(ret).low[3], Rat(255, 1))

\* C18: extract_audio_features never raises to its caller: when a step
\* fails (load, hop computation, transform, normalization, resampling) it
\* returns low, mid and high of N zeros each.
C18_ErrorGivesZeros ==
    /\ call = "returned" => ~IsNone(ret)
    /\ (call = "returned" /\ args.failed /= "none")
       => \A b \in {"low", "mid", "high"} :
            /\ Len(Val(ret)[b]) = args.target_length
            /\ \A k \in 1..Len(Val(ret)[b]) : RatEq(Val(ret)[b][k], Zero)

\* C18 witness: the transform raised, three zeros a band returned
C18_Witness ==
    /\ call = "returned"
    /\ args.failed = "stft"
    /\ args.target_length = 3
    /\ Val(ret).mid = <<Zero, Zero, Zero>>

(***************************************************************************)
(* The two resamplers called on a sequence: resample_to_length and the     *)
(* resampling at the head of generate_frequency_bands                      *)
(* (convert_json_format.py)                                                *)
(***************************************************************************)
\* longest sequence handed to a resampler
MaxSeqLen == 4
\* the values of a sequence: samples of a waveform, negative ones included
SampleValues == {-1, 0, 1}

\* int(np.linspace(0, stop, num)[k - 1]): the index truncated
LinspaceInt(stop, num, k) == Linspace(stop, num, k)[1] \div Linspace(stop, num, k)[2]

\* generate_frequency_bands, lines 50-58: audio_data after the resampling,
\* audio_data not empty
ResampleAudioData(audio_data, num_frames) ==
    IF Len(audio_data) > num_frames
    THEN [k \in 1..num_frames |->
            audio_data[LinspaceInt(Len(audio_data) - 1, num_frames, k) + 1]]
    ELSE IF Len(audio_data) < num_frames
    THEN [k \in 1..num_frames |->
            Interp(Linspace(Len(audio_data) - 1, num_frames, k), audio_data)]
    ELSE audio_data

InitResample ==
    /\ call = "sequence"
    /\ args \in {[S |-> [i \in 1..Len(q) |-> Rat(q[i], 1)], N |-> n] :
                   q \in SeqsUpTo(SampleValues, MaxSeqLen), n \in 1..MaxTarget}
    /\ ret = None
    /\ ConvIdle
    /\ F1Idle

\* resample_to_length(S, N); np.interp raises ValueError on an empty
\* array of sample points
CallResampleToLength ==
    /\ call = "sequence"
    /\ IF args.S = <<>>
       THEN call' = "raised" /\ ret' = ret
       ELSE /\ call' = "resample_to_length"
            /\ ret' = Some(resample_to_length(args.S, args.N))
    /\ UNCHANGED <<args, conv_vars, f1_vars>>

\* the resampling of generate_frequency_bands(S, N); np.interp raises
\* ValueError on an empty array of sample points
CallResampleAudioData ==
    /\ call = "sequence"
    /\ IF args.S = <<>>
       THEN call' = "raised" /\ ret' = ret
       ELSE /\ call' = "generate_frequency_bands"
            /\ ret' = Some(ResampleAudioData(args.S, args.N))
    /\ UNCHANGED <<args, conv_vars, f1_vars>>

NextResample ==
    \/ CallResampleToLength
    \/ CallResampleAudioData

SpecResample == InitResample /\ [][NextResample]_vars

\* C19 (as claimed): for every numeric sequence S and target length
\* N >= 1 the resampler returns a sequence of exactly N values, and S
\* itself when len(S) = N.
C19_ResampleLength ==
    call /= "sequence"
    => /\ call /= "raised"
       /\ Len(Val(ret)) = args.N
       /\ Len(args.S) = args.N => Val(ret) = args.S

(***************************************************************************)
(* The lists of inferences and truths as objects: a heap of lists by       *)
(* address, and of each dict the address each key holds                    *)
(* (convert_to_music_dissector, lines 310-337)                             *)
(***************************************************************************)
ListKeys == {"beats", "downbeats", "segments", "labels"}

\* the list objects: those of the input data, those made for inferences,
\* those made by .copy() for truths
DataAddr == [beats |-> "data.beats", downbeats |-> "data.downbeats",
             segments |-> "data.segments", labels |-> "data.labels"]
NewAddr == [beats |-> "new.beats", downbeats |-> "new.downbeats",
            segments |-> "new.segments", labels |-> "new.labels"]
CopyAddr == [beats |-> "copy.beats", downbeats |-> "copy.downbeats",
             segments |-> "copy.segments", labels |-> "copy.labels"]
Addresses == {DataAddr[k] : k \in ListKeys} \cup {NewAddr[k] : k \in ListKeys}
                \cup {CopyAddr[k] : k \in ListKeys}

\* the address each key of inferences holds: data.get("beats", []) is the
\* list of the input when the key is present, a new list otherwise;
\* segments_times and labels are new lists
InferencesRefs(d) ==
    [k \in ListKeys |->
        IF k \in {"beats", "downbeats"} /\ k \in d.keys THEN DataAddr[k]
        ELSE NewAddr[k]]

\* mutant: truths holding the lists of inferences themselves
TruthsRefsAliased(infrefs) == infrefs

\* the address each key of truths holds: list.copy() makes a new list
TruthsRefs(infrefs) == [k \in ListKeys |-> CopyAddr[k]]

\* the heap after lines 310-337
HeapAfterBuild(d, infrefs, trrefs) ==
    LET inf == Inferences(d) IN
    [a \in Addresses |->
        IF \E k \in ListKeys : a = infrefs[k]
        THEN inf[CHOOSE k \in ListKeys : a = infrefs[k]]
        ELSE IF \E k \in ListKeys : a = trrefs[k]
        THEN inf[CHOOSE k \in ListKeys : a = trrefs[k]]
        ELSE IF a = DataAddr["beats"] THEN Get(d, "beats", <<>>)
        ELSE IF a = DataAddr["downbeats"] THEN Get(d, "downbeats", <<>>)
        ELSE <<>>]

\* inputs whose segments the inline normalizer reads without raising
InitCopy ==
    /\ call = "input"
    /\ args \in {DissectorData(b, d, sg, FALSE) :
                   b \in Optional(BeatLists),
                   d \in Optional(DownbeatLists),
                   sg \in {None} \cup
                          {Some(x) : x \in UNION {ObjectSegments(n) : n \in 1..MaxSegs}}}
    /\ ret = None
    /\ ConvIdle
    /\ F1Idle

\* lines 310-337: inferences and truths
BuildInferencesAndTruths ==
    /\ call = "input"
    /\ call' = "built"
    /\ LET infrefs == InferencesRefs(args)
           trrefs == TruthsRefs(infrefs)
       IN  ret' = Some([inferences |-> infrefs, truths |-> trrefs,
                        heap |-> HeapAfterBuild(args, infrefs, trrefs),
                        changed |-> <<>>])
    /\ UNCHANGED <<args, conv_vars, f1_vars>>

\* a user of the record appends a value to one list of truths or of
\* inferences: record[owner][key].append(...)
AppendToList ==
    /\ call = "built"
    /\ call' = "changed"
    /\ \E owner \in {"truths", "inferences"}, k \in ListKeys :
         ret' = Some([Val(ret) EXCEPT
                   !.heap[Val(ret)[owner][k]] =
                       Append(@, IF k = "labels" THEN "outro" ELSE -1),
                   !.changed = <<owner, k>>])
    /\ UNCHANGED <<args, conv_vars, f1_vars>>

NextCopy ==
    \/ BuildInferencesAndTruths
    \/ AppendToList

SpecCopy == InitCopy /\ [][NextCopy]_vars

\* the list a key of inferences, of truths holds
ListOf(owner, k) == Val(ret).heap[Val(ret)[owner][k]]

\* C20: after the record is built the four sequences of truths equal
\* those of inferences element by element and are independent copies:
\* changing a sequence of truths leaves the sequence of inferences and the
\* input data as they were, and changing a sequence of inferences leaves
\* the sequence of truths as it was.
C20_TruthsAreIndependentCopies ==
    /\ call = "built" =>
         \A k \in ListKeys : ListOf("truths", k) = ListOf("inferences", k)
    /\ (call = "changed" /\ Val(ret).changed[1] = "truths") =>
         /\ \A k \in ListKeys : ListOf("inferences", k) = Inferences(args)[k]
         /\ Val(ret).heap[DataAddr["beats"]] = Get(args, "beats", <<>>)
         /\ Val(ret).heap[DataAddr["downbeats"]] = Get(args, "downbeats", <<>>)
    /\ (call = "changed" /\ Val(ret).changed[1] = "inferences") =>
         \A k \in ListKeys : ListOf("truths", k) = Truths(Inferences(args))[k]

\* C20 witness: a value appended to truths.beats, the beats of inferences
\* (the list of the input itself) still the two beats of the input
C20_Witness ==
    /\ call = "changed"
    /\ Val(ret).changed = <<"truths", "beats">>
    /\ Val(ret).inferences["beats"] = DataAddr["beats"]
    /\ ListOf("truths", "beats") = <<0, 1000, -1>>
    /\ ListOf("inferences", "beats") = <<0, 1000>>

(***************************************************************************)
(* Claims about the backfill of beats, downbeats and duration              *)
(***************************************************************************)
\* the beats, the downbeats and the bpm of the input of the conversion
InputBeats ==
    IF prog = "dissector" THEN Get(data, "beats", <<>>)
    ELSE Get(Get(data, "inferences", NoObject), "beats", <<>>)
InputDownbeats ==
    IF prog = "dissector" THEN Get(data, "downbeats", <<>>)
    ELSE Get(Get(data, "inferences", NoObject), "downbeats", <<>>)
InputBpm ==
    IF prog = "dissector" THEN DefaultBpm
    ELSE Get(Get(Get(data, "scores", NoObject), "beat", NoObject), "bpm", DefaultBpm)

\* whether beats is the grid 0, i, 2i, ... below dur, i = 60 / bpm (in 1/100 s)
IsBeatGrid(beats, dur, bpm) ==
    /\ \A k \in 1..Len(beats) :
         /\ RatEq(beats[k], Rat((k - 1) * 6000, bpm))
         /\ ~RatLe(dur, beats[k])
    /\ RatLe(dur, Rat(Len(beats) * 6000, bpm))

\* whether downbeats is beats 0, 4, 8, ... of beats
IsEveryFourth(downbeats, beats) ==
    /\ Len(downbeats) = (Len(beats) + 3) \div 4
    /\ \A k \in 1..Len(downbeats) : downbeats[k] = beats[4 * (k - 1) + 1]

\* the beats and downbeats of a written record, none for a record without
\* inferences
OutputHasInferences ==
    prog = "dissector" \/ "inferences" \in Val(output).keys
OutputDuration ==
    IF prog = "dissector" \/ "duration" \in Val(output).keys
    THEN Val(output).duration ELSE Rat(UiDefaultDuration, 1)

\* C21 (as claimed): whenever the input's beats are empty or missing the
\* record's inferences.beats is the grid 0, i, 2i, ... below the duration,
\* i = 60 / BPM (BPM 120 when absent), and whenever downbeats are empty
\* inferences.downbeats is every 4th beat of inferences.beats.
C21_BeatsBackfilled ==
    pc = "done" =>
        /\ InputBeats = <<>> =>
             /\ OutputHasInferences
             /\ IsBeatGrid(Val(output).inferences.beats, OutputDuration, InputBpm)
        /\ InputDownbeats = <<>> =>
             /\ OutputHasInferences
             /\ IsEveryFourth(Val(output).inferences.downbeats,
                              Val(output).inferences.beats)

\* the last boundary of a segments list: the end of the last object or
\* pair, the last number of a flat list
LastBoundary(segs) ==
    LET last == segs[Len(segs)] IN
    IF last.kind = "dict" THEN last.end
    ELSE IF last.kind = "list" THEN last.items[Len(last.items)]
    ELSE last.num

\* C22 (as claimed): in convert_json_to_ui_format, when the input's
\* duration is absent or zero and no duration is read from audio (no
\* audio file found, or one found that cannot be read), the duration is
\* the end of the last segment whenever the input has segments.
C22_DurationFromLastSegment ==
    (/\ prog = "ui"
     /\ pc = "done"
     /\ "duration" \notin data.keys \/ RatEq(data.duration, Zero)
     /\ fs.audio.st \in {"missing", "unreadable"}
     /\ "segments" \in data.keys
     /\ Truthy(data.segments))
    => /\ "duration" \in Val(output).keys
       /\ RatEq(Val(output).duration, Rat(LastBoundary(data.segments), 1))

----------------------------------------------------------------------------
\* batch_analyze (SimpleAnalyzer and MusicAnalyzer)
\*
\* The harness variables hold one batch: args is the analyzer, whether the
\* allin1 library can be imported, and what happens to each track; ret is
\* the loop's state (tracks attempted so far, the results list).  A track
\* is named by its position in audio_files.

MaxTracks == 2

Analyzers == {"SimpleAnalyzer", "MusicAnalyzer"}

\* what happens to one track: its file is missing, allin1.analyze raises,
\* writing the analysis JSON fails, convert_to_music_dissector raises,
\* or nothing fails
TrackOutcomes == {"missing", "analyzer_error", "write_error", "conversion_error", "ok"}

TrackLists == UNION {[1..n -> TrackOutcomes] : n \in 1..MaxTracks}

\* MusicAnalyzer writes no file and converts nothing
MusicTrackOutcomes == {"missing", "analyzer_error", "ok"}

MusicTrackLists == UNION {[1..n -> MusicTrackOutcomes] : n \in 1..MaxTracks}

\* the allin1 property of SimpleAnalyzer: "module", or "exit" for sys.exit(1)
SimpleAllin1(importable) == IF importable THEN "module" ELSE "exit"

\* the allin1 property of MusicAnalyzer: "module", or "raise" (ImportError)
MusicAllin1(importable) == IF importable THEN "module" ELSE "raise"

\* SimpleAnalyzer.analyze: "result" (analysis_data), "none", or "exit"
\* when SystemExit leaves the function (except Exception does not catch it)
analyze(track, importable) ==
    IF track = "missing" THEN "none"
    ELSE IF SimpleAllin1(importable) = "exit" THEN "exit"
    ELSE IF track \in {"analyzer_error", "write_error"} THEN "none"
    ELSE "result"

\* MusicAnalyzer.analyze_audio_file: "result" or "none"; it writes no file
\* and converts nothing
analyze_audio_file(track, importable) ==
    IF track = "missing" THEN "none"
    ELSE IF MusicAllin1(importable) = "raise" THEN "none"
    ELSE IF track = "analyzer_error" THEN "none"
    ELSE "result"

InitBatch ==
    /\ call = "batch_analyze"
    /\ args \in [analyzer : {"SimpleAnalyzer"}, importable : BOOLEAN,
                 audio_files : TrackLists]
            \cup [analyzer : {"MusicAnalyzer"}, importable : BOOLEAN,
                  audio_files : MusicTrackLists]
    /\ ret = [attempted |-> <<>>, results |-> <<>>]
    /\ ConvIdle
    /\ F1Idle

\* one iteration of the for loop of batch_analyze
BatchAnalyzeIteration ==
    /\ call = "batch_analyze"
    /\ Len(ret.attempted) < Len(args.audio_files)
    /\ LET i == Len(ret.attempted) + 1
           result == IF args.analyzer = "SimpleAnalyzer"
                     THEN analyze(args.audio_files[i], args.importable)
                     ELSE analyze_audio_file(args.audio_files[i], args.importable)
       IN  /\ ret' = [attempted |-> Append(ret.attempted, i),
                      results |-> IF result = "result"
                                  THEN Append(ret.results, i)
                                  ELSE ret.results]
           /\ call' = IF result = "exit" THEN "exited" ELSE call
    /\ UNCHANGED <<args, conv_vars, f1_vars>>

\* return results
BatchAnalyzeReturn ==
    /\ call = "batch_analyze"
    /\ Len(ret.attempted) = Len(args.audio_files)
    /\ call' = "returned"
    /\ UNCHANGED <<args, ret, conv_vars, f1_vars>>

NextBatch ==
    \/ BatchAnalyzeIteration
    \/ BatchAnalyzeReturn

SpecBatch == InitBatch /\ [][NextBatch]_vars

\* the positions 1..n in order
Positions(n) == [k \in 1..n |-> k]

\* the positions of a list of tracks that are in a set, in order
RECURSIVE Select(_, _, _)
Select(tracks, kept, k) ==
    IF k > Len(tracks) THEN <<>>
    ELSE IF tracks[k] \in kept THEN <<k>> \o Select(tracks, kept, k + 1)
    ELSE Select(tracks, kept, k + 1)

\* the tracks of the batch for which nothing failed
SucceededTracks ==
    IF args.importable THEN Select(args.audio_files, {"ok"}, 1) ELSE <<>>

\* C23 (as claimed): when batch_analyze has ended, every track was
\* attempted, in input order, whatever failed for the tracks before it
\* (missing file, analyzer exception, library not importable, conversion
\* error), and the results are those of exactly the tracks that succeeded.
C23_BatchAttemptsEveryTrack ==
    call \in {"returned", "exited"} =>
        /\ ret.attempted = Positions(Len(args.audio_files))
        /\ ret.results = SucceededTracks

\* the tracks of the batch whose convert_to_music_dissector call raised
\* (a failed write of the record among the causes)
ConversionFailedTracks == Select(args.audio_files, {"conversion_error"}, 1)

\* the positions that occur in a list of positions
Range(s) == {s[k] : k \in DOMAIN s}

\* C24 (as claimed): a track whose record could not be written is not
\* reported as a success by SimpleAnalyzer.analyze: it is not among the
\* results of the batch.
C24_WriteFailureIsReported ==
    (call = "returned" /\ args.analyzer = "SimpleAnalyzer")
    => Range(ConversionFailedTracks) \cap Range(ret.results) = {}

\* the five locations of step 1 that hold a readable audio file: the path
\* of the record, the directory of the metadata file, the working
\* directory, the two sample-data directories
ReadableLocations == {i \in 1..5 : fs.cand[i].st = "ok"}
FirstReadableLocation ==
    CHOOSE i \in ReadableLocations : \A j \in ReadableLocations : i <= j

\* C25 (as claimed): step 1 probes the locations in the fixed order (path
\* of the record; directory of the metadata file; working directory;
\* sample-data directories), skips a location whose file cannot be read,
\* and ends with the duration of the first location in this order that
\* holds a readable file.
C25_FirstReadableLocationWins ==
    prog = "dissector" =>
        /\ pc = "step1" =>
             /\ IsNone(duration)
             /\ \A j \in 1..(test_idx - 1) : fs.cand[j].st /= "ok"
        /\ pc = "step2" =>
             IF ReadableLocations /= {}
             THEN duration = Some(fs.cand[FirstReadableLocation].dur)
             ELSE IsNone(duration)

\* C25 (amended): the same, the sample-data directories being candidates
\* only when the path of the record is absolute: step 1 ends with the
\* duration of the first candidate of possible_audio_paths that exists
\* and is readable, and without a duration when there is none.
C25_FirstReadableCandidateWins ==
    prog = "dissector" =>
        /\ pc = "step1" =>
             /\ IsNone(duration)
             /\ test_idx <= NumCandidates
             /\ \A j \in 1..(test_idx - 1) : fs.cand[j].st /= "ok"
        /\ pc = "step2" =>
             IF ReadableCandidates /= {}
             THEN duration = Some(fs.cand[FirstReadable].dur)
             ELSE IsNone(duration)

\* C25 witness: the path of the record is absolute and its file cannot be
\* read, the next two locations hold nothing, the first sample-data
\* directory holds a readable file of 30 s: step 1 ends with 30 s
C25_Witness ==
    /\ prog = "dissector"
    /\ pc = "step2"
    /\ data.abs
    /\ fs.cand[1].st = "unreadable"
    /\ fs.cand[2].st = "missing"
    /\ fs.cand[3].st = "missing"
    /\ fs.cand[4] = Readable(Rat(3000, 1))
    /\ duration = Some(Rat(3000, 1))

\* C26 (as claimed): when step 1 found no duration and the stems
\* directory holds at least one readable stem file, step 2 ends with the
\* duration of a readable stem, also when another stem file cannot be read.
C26_ReadableStemGivesDuration ==
    (/\ prog = "dissector"
     /\ pc = "step3"
     /\ attempted = <<1, 2>>
     /\ \E i \in Instruments : fs.stemfile[i] = "ok")
    => /\ fs.stems.st = "ok"
       /\ duration = Some(fs.stems.dur)

\* the sample at position k of a sequence resampled to n values by
\* linear interpolation at n evenly spaced positions over [0, len - 1]
Interpolated(S, n, k) == Interp(Linspace(Len(S) - 1, n, k), S)

\* C27 (as claimed): wherever a sequence is length-normalized and its
\* length differs from the target (resample_to_length, and the up- and
\* down-sampling of generate_frequency_bands), every output sample is the
\* linear interpolation of the source at its evenly spaced position, none
\* the source sample at the truncated position.
C27_ResamplingInterpolates ==
    (call \in {"resample_to_length", "generate_frequency_bands"}
     /\ Len(args.S) /= args.N)
    => \A k \in 1..args.N : RatEq(Val(ret)[k], Interpolated(args.S, args.N, k))

\* C28 (as claimed): a second conversion of the same input into the same
\* output directory, the input, the source audio and the stems unchanged,
\* resolves the duration of the record the first conversion wrote: the
\* files the first conversion wrote (mixdown and demixed MP3) do not
\* change it.
C28_SecondConversionSameDuration ==
    (prog = "dissector" /\ pc = "output" /\ ~IsNone(output))
    => RatEq(Val(record).duration, Val(output).duration)

\* a name that starts with four decimal digits
HasFourDigitPrefix(s) == Len(s) >= 4 /\ \A i \in 1..4 : s[i] \in Digits

\* C29 (as claimed): normalize_filename is idempotent, called on a name it
\* returned it returns that name (no second prefix), and every name it
\* returns starts with a prefix of exactly four decimal digits.
C29_NormalizeIdempotent ==
    /\ call = "normalize_filename_again" => Val(ret) = args
    /\ call \in {"normalize_filename", "normalize_filename_again"}
         => HasFourDigitPrefix(Val(ret))

\* convert_json_to_ui_format has returned: True at "done", False at
\* "failed" (an error before the write step) and at "write_failed"
UiReturned == prog = "ui" /\ pc \in {"done", "failed", "write_failed"}

\* C30: convert_json_to_ui_format never raises; it returns True only when
\* the output file holds the whole converted record; with no output path
\* given it never writes to the input file; and before the write step it
\* leaves the file at the output path as it was, so that an error raised
\* before the write step (answered with False) leaves an existing output
\* file unchanged.
C30_UiOutcomeIsAValue ==
    /\ [](prog = "ui" =>
            /\ pc \notin {"raised", "write_raised"}
            /\ pc = "done" => (output = record /\ output /= Truncated)
            /\ fs.input_json = "intact")
    /\ [][(prog = "ui" /\ pc /= "ui_write") => output' = output]_vars

\* C30 witness: the conversion failed before the write step (a stem file
\* could not be loaded) and the output file of an earlier conversion is
\* still there
C30_Witness ==
    /\ prog = "ui"
    /\ pc = "failed"
    /\ output = ExistingOutput
    /\ fs.input_json = "intact"

====
